---- MODULE Spec2Model ----
(***************************************************************************)
(* QUICListener (libp2p/transport/quic/listener.py): the packet parser,    *)
(* the version-negotiation builder, the routing table (pending and         *)
(* established sessions, addr->cid, cid->addr), the per-datagram tasks     *)
(* under the connection lock, promotion, close() and the ingress loop.     *)
(*                                                                         *)
(* The QUIC engine (aioquic QuicConnection), the connection wrapper        *)
(* (QUICConnection), the socket and the security verifier are outside the  *)
(* listener: what they return or raise is a choice made with \E.           *)
(***************************************************************************)
EXTENDS Integers, Sequences, FiniteSets, TLC

\* ------------------------------------------------------------- bounds
\* datagrams the ingress loops receive when the owner may call close()
MaxPackets == 2
\* datagrams the ingress loops receive when the owner never calls close()
MaxServed == 3
\* events one drain of an engine's event queue returns
MaxEvents == 2
\* (bytes, addr) pairs one datagrams_to_send call returns
MaxOut == 1

\* ---------------------------------------------------- program constants
\* secrets.token_bytes(8): length of a listener-generated connection id
CidBytes == 8
\* 0x80 | 0x70, first byte of a version-negotiation packet
VNFirstByte == 240

\* ------------------------------------------------------------- bytes
\* struct.pack("!I", v)
pack_u32(v) ==
  << (v \div 16777216) % 256, (v \div 65536) % 256, (v \div 256) % 256, v % 256 >>

\* struct.unpack("!I", b)[0]
unpack_u32(b) == ((b[1] * 256 + b[2]) * 256 + b[3]) * 256 + b[4]

\* Python data[i:j] on a 0-based buffer (j may exceed the length)
Slice(data, i, j) ==
  LET hi == IF j > Len(data) THEN Len(data) ELSE j
  IN  IF hi <= i THEN << >> ELSE SubSeq(data, i + 1, hi)

\* Python data[i]
At(data, i) == data[i + 1]

RECURSIVE be_value(_)
\* big-endian value of a byte string
be_value(b) ==
  IF Len(b) = 0 THEN 0 ELSE be_value(SubSeq(b, 1, Len(b) - 1)) * 256 + b[Len(b)]

\* _decode_varint: <<value, bytes consumed>>; a truncated integer is <<0, 0>>
decode_varint(data) ==
  IF Len(data) < 1 THEN << 0, 0 >>
  ELSE
    LET first_byte == At(data, 0)
        length_bits == (first_byte \div 64) % 4
        width == IF length_bits = 0 THEN 1
                 ELSE IF length_bits = 1 THEN 2
                 ELSE IF length_bits = 2 THEN 4 ELSE 8
    IN  IF Len(data) < width THEN << 0, 0 >>
        ELSE << be_value(<< first_byte % 64 >> \o Slice(data, 1, width)), width >>

NoPacket == [some |-> FALSE]

QUICPacketInfo(version, destination_cid, source_cid, packet_type, token) ==
  [some |-> TRUE, version |-> version, destination_cid |-> destination_cid,
   source_cid |-> source_cid, packet_type |-> packet_type, token |-> token]

\* parse_quic_packet, after the two connection ids have been read
parse_token(data, first_byte, version, dest_cid, src_cid, offset) ==
  LET packet_type == (first_byte \div 16) % 4
  IN  IF packet_type = 0
      THEN IF Len(data) < offset + 1 THEN NoPacket
           ELSE LET vi == decode_varint(Slice(data, offset, Len(data)))
                    off2 == offset + vi[2]
                IN  IF Len(data) < off2 + vi[1] THEN NoPacket
                    ELSE QUICPacketInfo(version, dest_cid, src_cid, packet_type,
                                        Slice(data, off2, off2 + vi[1]))
      ELSE QUICPacketInfo(version, dest_cid, src_cid, packet_type, << >>)

\* parse_quic_packet, after the version has been read
parse_cids(data, first_byte, version) ==
  IF Len(data) < 5 + 1 THEN NoPacket
  ELSE
    LET dest_cid_len == At(data, 5)
        o1 == 6
    IN  IF Len(data) < o1 + dest_cid_len THEN NoPacket
        ELSE
          LET dest_cid == Slice(data, o1, o1 + dest_cid_len)
              o2 == o1 + dest_cid_len
          IN  IF Len(data) < o2 + 1 THEN NoPacket
              ELSE
                LET src_cid_len == At(data, o2)
                    o3 == o2 + 1
                IN  IF Len(data) < o3 + src_cid_len THEN NoPacket
                    ELSE parse_token(data, first_byte, version, dest_cid,
                                     Slice(data, o3, o3 + src_cid_len),
                                     o3 + src_cid_len)

parse_quic_packet(data) ==
  IF Len(data) < 1 THEN NoPacket
  ELSE
    LET first_byte == At(data, 0)
    IN  IF first_byte \div 128 = 0 THEN NoPacket
        ELSE IF Len(data) < 1 + 4 THEN NoPacket
        ELSE parse_cids(data, first_byte, unpack_u32(Slice(data, 1, 5)))

RECURSIVE sorted_descending(_)
\* variant of sorted: descending
sorted_descending(S) ==
  IF S = {} THEN << >>
  ELSE LET m == CHOOSE x \in S : \A y \in S : x >= y
       IN  << m >> \o sorted_descending(S \ {m})

RECURSIVE sorted(_)
\* sorted(set of integers): ascending sequence
sorted(S) ==
  IF S = {} THEN << >>
  ELSE LET m == CHOOSE x \in S : \A y \in S : x <= y
       IN  << m >> \o sorted(S \ {m})

RECURSIVE pack_versions(_)
\* for version in <seq>: packet.extend(struct.pack("!I", version))
pack_versions(vs) ==
  IF Len(vs) = 0 THEN << >> ELSE pack_u32(Head(vs)) \o pack_versions(Tail(vs))

\* variant of vn_packet: the version field carries QUIC v1
vn_packet_versioned(source_cid, versions) ==
  << VNFirstByte >> \o pack_u32(1) \o << Len(source_cid) >> \o source_cid
    \o << 0 >> \o pack_versions(sorted(versions))

\* the packet _send_version_negotiation builds
vn_packet(source_cid, versions) ==
  << VNFirstByte >> \o pack_u32(0) \o << Len(source_cid) >> \o source_cid
    \o << 0 >> \o pack_versions(sorted(versions))

\* ------------------------------------------------------- input universe
Addrs == {"A", "B"}
\* wire versions: QUIC v1, QUIC v2, and one no configuration supports
V1 == unpack_u32(<< 0, 0, 0, 1 >>)
V2 == unpack_u32(<< 107, 51, 67, 207 >>)
VBad == unpack_u32(<< 10, 10, 10, 10 >>)
\* union of config.supported_versions over quic_configs (listener under test)
ListenerVersions == {V1, V2}
\* custom_quic_version_to_wire_format(protocol) over the keys of quic_configs
ConfiguredVersions == {V1}


\* the k-th connection id secrets.token_bytes(8) returns
ServerCid(k) == [i \in 1..CidBytes |-> IF i = CidBytes THEN k ELSE 0]

\* connection ids a client picks for itself
ClientDcid == << 9, 9 >>
ClientScid == << 5 >>

\* a long-header datagram: first byte, version, DCID, SCID, the rest
long_header(first, version, dcid, scid, rest) ==
  << first >> \o pack_u32(version) \o << Len(dcid) >> \o dcid
    \o << Len(scid) >> \o scid \o rest

\* Initial packet (type 0) with an empty token
InitialPkt(version, dcid) == long_header(192, version, dcid, ClientScid, << 0 >>)
\* Handshake packet (type 2)
HandshakePkt(version, dcid) == long_header(224, version, dcid, ClientScid, << >>)
\* a short-header datagram
ShortPkt == << 64, 1 >>
\* a long-header datagram cut inside the version field
TruncPkt == << 192 >> \o pack_u32(VBad) \o << 2 >>

\* the datagrams a peer may send once the connection ids `cids` are in use,
\* by kind of traffic
Datagrams(kind, cids) ==
  IF kind = "routing"
  THEN { InitialPkt(V1, ClientDcid) } \cup { HandshakePkt(V1, c) : c \in cids }
  ELSE IF kind = "handshake"
  THEN { InitialPkt(V1, ClientDcid), InitialPkt(VBad, ClientDcid) }
       \cup { HandshakePkt(V1, c) : c \in cids }
       \cup { InitialPkt(VBad, c) : c \in cids }
  ELSE IF kind = "short"
  THEN { InitialPkt(V1, ClientDcid), ShortPkt, TruncPkt }
  ELSE { InitialPkt(V1, ClientDcid), InitialPkt(V2, ClientDcid),
         HandshakePkt(V1, ClientDcid), vn_packet(ClientScid, ListenerVersions) }

\* the listeners and environments explored: security manager set, peer
\* addresses, traffic, whether close() is ever called, datagrams received
Scenarios ==
  { << TRUE, Addrs, "handshake", TRUE, MaxPackets >>,
    << FALSE, Addrs, "routing", FALSE, MaxServed >>,
    << TRUE, {"A"}, "short", TRUE, MaxPackets >>,
    << TRUE, {"A"}, "stray", TRUE, MaxPackets >> }

\* ------------------------------------------------------------- state
VARIABLES
  connections,          \* _connections: cid -> QUICConnection wrapper
  pending_connections,  \* _pending_connections: cid -> engine
  addr_to_cid,          \* _addr_to_cid
  cid_to_addr,          \* _cid_to_addr
  stats,                \* _stats, without bytes_received
  socket,               \* _socket: 0 is None, else the socket's number
  bound_addresses,      \* _bound_addresses
  listening,            \* _listening
  closed,               \* _closed
  nursery,              \* _nursery is set
  supported_versions,   \* _supported_versions
  security_manager,     \* _security_manager is set
  engines,              \* the engines created so far: state and first peer
  tasks,                \* _process_packet tasks started and not yet in the lock
  dispatched,           \* datagrams the ingress loops have dispatched
  lock,                 \* _connection_lock: "free", "task" or "close"
  waiters,              \* tasks parked on the lock, in order (0 is close())
  cur,                  \* the task inside the lock and where it stands
  sent,                 \* sendto calls of the task inside the lock
  handler_started,      \* connections passed to _handle_new_established_connection
  ingress,              \* _handle_incoming_packets loops: where each one waits
  close_pc,             \* the close() call that found _closed false
  peers,                \* the addresses datagrams come from
  menu,                 \* the kinds of datagram the peers send
  may_close,            \* close() is called: by the owner or by a failing listen()
  budget,               \* datagrams the peers send
  api                   \* how the last listen() or close() call ended

rtvars == << connections, pending_connections, addr_to_cid, cid_to_addr >>
lsvars == << socket, bound_addresses, listening, closed, nursery, close_pc,
            api >>
cfgvars == << supported_versions, security_manager, peers, menu, may_close,
             budget >>
vars == << connections, pending_connections, addr_to_cid, cid_to_addr, stats,
           socket, bound_addresses, listening, closed, nursery,
           supported_versions, security_manager, engines, tasks, dispatched,
           lock, waiters, cur, sent, handler_started, ingress, close_pc,
           peers, menu, may_close, budget, api >>

EmptyMap == [x \in {} |-> 0]
Without(f, k) == [x \in DOMAIN f \ {k} |-> f[x]]
With(f, k, v) == [x \in DOMAIN f \cup {k} |-> IF x = k THEN v ELSE f[x]]

\* the routing table as one value
RT == [connections |-> connections, pending_connections |-> pending_connections,
       addr_to_cid |-> addr_to_cid, cid_to_addr |-> cid_to_addr]

SetRT(r) ==
  /\ connections' = r.connections
  /\ pending_connections' = r.pending_connections
  /\ addr_to_cid' = r.addr_to_cid
  /\ cid_to_addr' = r.cid_to_addr

Bump(s, counter) == [s EXCEPT ![counter] = @ + 1]

IdleCur == [pc |-> "idle"]

NoCid == << >>

\* _process_packet(data, addr) as it enters "async with self._connection_lock"
EnterCur(t) ==
  [pc |-> "classify", id |-> t.id, data |-> t.data, addr |-> t.addr,
   cid |-> NoCid, engine |-> 0, via |-> "none", n |-> 0, log |-> "none",
   fetched |-> << >>, remaining_datagrams |-> << >>]

\* QUICListener.__init__
InitListener ==
  /\ connections = EmptyMap
  /\ pending_connections = EmptyMap
  /\ addr_to_cid = EmptyMap
  /\ cid_to_addr = EmptyMap
  /\ stats = [connections_accepted |-> 0, connections_rejected |-> 0,
              version_negotiations |-> 0, packets_processed |-> 0,
              invalid_packets |-> 0]
  /\ socket = 0
  /\ bound_addresses = << >>
  /\ listening = FALSE
  /\ closed = FALSE
  /\ nursery = FALSE
  /\ engines = << >>
  /\ tasks = {}
  /\ dispatched = 0
  /\ lock = "free"
  /\ waiters = << >>
  /\ cur = IdleCur
  /\ sent = << >>
  /\ handler_started = << >>
  /\ ingress = [s \in 0..2 |-> 0]
  /\ close_pc = "idle"
  /\ api = "none"

Init ==
  /\ InitListener
  /\ supported_versions = ListenerVersions
  /\ \E sc \in Scenarios :
       /\ security_manager = sc[1]
       /\ peers = sc[2]
       /\ menu = sc[3]
       /\ may_close = sc[4]
       /\ budget = sc[5]

\* --------------------------------------------------- routing table
\* variant of QUICConnection: a client-side wrapper
QUICConnection_initiator(engine, addr) ==
  [quic |-> engine, remote_addr |-> addr, is_initiator |-> TRUE,
   is_closed |-> FALSE]

\* the wrapper _promote_pending_connection constructs (lines 625-634)
QUICConnection(engine, addr) ==
  [quic |-> engine, remote_addr |-> addr, is_initiator |-> FALSE,
   is_closed |-> FALSE]

\* _remove_connection; close_raises: connection.close() raises
remove_connection(r, dest_cid, close_raises) ==
  LET r1 == [r EXCEPT !.connections = Without(@, dest_cid)]
  IN  IF dest_cid \in DOMAIN r.connections /\ close_raises
      THEN r1
      ELSE IF dest_cid \in DOMAIN r1.cid_to_addr
           THEN [r1 EXCEPT !.cid_to_addr = Without(@, dest_cid),
                           !.addr_to_cid = Without(@, r1.cid_to_addr[dest_cid])]
           ELSE r1

\* _remove_pending_connection
remove_pending_connection(r, dest_cid) ==
  LET r1 == [r EXCEPT !.pending_connections = Without(@, dest_cid)]
  IN  IF dest_cid \in DOMAIN r1.cid_to_addr
      THEN [r1 EXCEPT !.cid_to_addr = Without(@, dest_cid),
                      !.addr_to_cid = Without(@, r1.cid_to_addr[dest_cid])]
      ELSE r1

\* _remove_connection_by_addr
remove_connection_by_addr(r, addr, close_raises) ==
  IF addr \in DOMAIN r.addr_to_cid
  THEN remove_connection(r, r.addr_to_cid[addr], close_raises)
  ELSE r

\* _handle_new_connection, "Store connection mapping"
store_pending(r, destination_cid, engine, addr) ==
  [r EXCEPT !.pending_connections = With(@, destination_cid, engine),
            !.addr_to_cid = With(@, addr, destination_cid),
            !.cid_to_addr = With(@, destination_cid, addr)]

\* variant of pop_pending: the pending entry is kept
pop_pending_kept(r, dest_cid) == r

\* _promote_pending_connection, "Remove from pending connections"
pop_pending(r, dest_cid) ==
  [r EXCEPT !.pending_connections = Without(@, dest_cid)]

\* _promote_pending_connection, "Store the connection with connection ID"
store_connection(r, dest_cid, connection) ==
  [r EXCEPT !.connections = With(@, dest_cid, connection)]

RECURSIVE close_sessions(_, _, _, _)
\* close(): _remove_connection for every key of _connections, then
\* _remove_pending_connection for every key of _pending_connections;
\* raisers: the connections whose close() raises
close_sessions(r, est, pend, raisers) ==
  IF est # {}
  THEN LET c == CHOOSE x \in est : TRUE
       IN  close_sessions(remove_connection(r, c, c \in raisers),
                          est \ {c}, pend, raisers)
  ELSE IF pend # {}
  THEN LET c == CHOOSE x \in pend : TRUE
       IN  close_sessions(remove_pending_connection(r, c), est, pend \ {c},
                          raisers)
  ELSE r

\* ------------------------------------------------------------ the lock
\* trio.Lock.release(): the lock passes to the first parked waiter
Release ==
  IF waiters = << >>
  THEN /\ lock' = "free"
       /\ cur' = IdleCur
       /\ UNCHANGED << waiters, tasks, close_pc >>
  ELSE /\ waiters' = Tail(waiters)
       /\ IF Head(waiters) = 0
          THEN /\ lock' = "close"
               /\ cur' = IdleCur
               /\ close_pc' = "locked"
               /\ UNCHANGED tasks
          ELSE LET t == CHOOSE x \in tasks : x.id = Head(waiters)
               IN  /\ lock' = "task"
                   /\ cur' = EnterCur(t)
                   /\ tasks' = tasks \ {t}
                   /\ UNCHANGED close_pc

\* ------------------------------------------------------- listen, close
\* variant of ListenAlready: the bound addresses are cleared before the raise
ListenAlready_clearing ==
  /\ listening
  /\ close_pc \in {"idle", "done"}
  /\ api' = "already_listening"
  /\ bound_addresses' = << >>
  /\ UNCHANGED << rtvars, stats, socket, listening, closed,
                  nursery, close_pc, cfgvars, engines, tasks, dispatched, lock,
                  waiters, cur, sent, handler_started, ingress >>

\* listen(): "Already listening"
ListenAlready ==
  /\ listening
  /\ close_pc \in {"idle", "done"}
  /\ api' = "already_listening"
  /\ UNCHANGED << rtvars, stats, socket, bound_addresses, listening, closed,
                  nursery, close_pc, cfgvars, engines, tasks, dispatched, lock,
                  waiters, cur, sent, handler_started, ingress >>

\* listen() with a multiaddr that is not a QUIC multiaddr
ListenInvalid ==
  /\ ~listening
  /\ close_pc \in {"idle", "done"}
  /\ api' = "invalid_multiaddr"
  /\ UNCHANGED << rtvars, stats, socket, bound_addresses, listening, closed,
                  nursery, close_pc, cfgvars, engines, tasks, dispatched, lock,
                  waiters, cur, sent, handler_started, ingress >>

\* listen() whose socket creation or bind fails: close(), then raise
ListenBindFailed ==
  /\ may_close
  /\ ~listening
  /\ close_pc \in {"idle", "done"}
  /\ closed' = TRUE
  /\ IF closed
     THEN UNCHANGED << rtvars, socket, bound_addresses >>
     ELSE /\ SetRT(close_sessions(RT, DOMAIN connections,
                                  DOMAIN pending_connections, {}))
          /\ socket' = 0
          /\ bound_addresses' = << >>
  /\ api' = "listen_failed"
  /\ UNCHANGED << stats, listening, nursery, close_pc, cfgvars, engines, tasks,
                  dispatched, lock, waiters, cur, sent, handler_started,
                  ingress >>

\* listen() that binds: socket, nursery, bound address, ingress loop
ListenOk ==
  /\ ~listening
  /\ close_pc \in {"idle", "done"}
  /\ LET s == IF close_pc = "idle" /\ ~closed THEN 1 ELSE 2
     IN  /\ socket' = s
         /\ bound_addresses' = << s >>
  /\ nursery' = TRUE
  /\ api' = "listen_ok"
  /\ listening' = TRUE
  /\ ingress' = [ingress EXCEPT ![0] = @ + 1]
  /\ UNCHANGED << rtvars, stats, closed, close_pc, cfgvars, engines, tasks,
                  dispatched, lock, waiters, cur, sent, handler_started >>

\* close() that finds _closed set: returns at once
CloseNoop ==
  /\ may_close
  /\ closed
  /\ close_pc \in {"idle", "done"}
  /\ api' = "close_noop"
  /\ UNCHANGED << rtvars, stats, socket, bound_addresses, listening, closed,
                  nursery, close_pc, cfgvars, engines, tasks, dispatched, lock,
                  waiters, cur, sent, handler_started, ingress >>

\* variant of CloseCall: close() enters its section without the lock
CloseCall_unlocked ==
  /\ may_close
  /\ ~closed
  /\ close_pc = "idle"
  /\ closed' = TRUE
  /\ listening' = FALSE
  /\ lock' = "close"
  /\ close_pc' = "locked"
  /\ UNCHANGED << rtvars, stats, socket, bound_addresses, nursery, api, cfgvars,
                  engines, tasks, dispatched, cur, sent, handler_started,
                  ingress, waiters >>

\* close(): sets _closed, clears _listening, asks for the lock
CloseCall ==
  /\ may_close
  /\ ~closed
  /\ close_pc = "idle"
  /\ closed' = TRUE
  /\ listening' = FALSE
  /\ IF lock = "free"
     THEN /\ lock' = "close"
          /\ close_pc' = "locked"
          /\ UNCHANGED waiters
     ELSE /\ waiters' = Append(waiters, 0)
          /\ close_pc' = "wait"
          /\ UNCHANGED lock
  /\ UNCHANGED << rtvars, stats, socket, bound_addresses, nursery, api, cfgvars,
                  engines, tasks, dispatched, cur, sent, handler_started,
                  ingress >>

\* close() inside the lock: removes the sessions, releases the lock, closes
\* the socket, clears the bound addresses, returns
CloseFinish ==
  /\ close_pc = "locked"
  /\ \E raisers \in SUBSET DOMAIN connections :
       SetRT(close_sessions(RT, DOMAIN connections,
                            DOMAIN pending_connections, raisers))
  /\ socket' = 0
  /\ bound_addresses' = << >>
  /\ IF waiters = << >>
     THEN /\ lock' = "free"
          /\ UNCHANGED << waiters, tasks, cur >>
     ELSE LET t == CHOOSE x \in tasks : x.id = Head(waiters)
          IN  /\ lock' = "task"
              /\ waiters' = Tail(waiters)
              /\ cur' = EnterCur(t)
              /\ tasks' = tasks \ {t}
  /\ close_pc' = "done"
  /\ api' = "close_returned"
  /\ UNCHANGED << stats, listening, closed, nursery, cfgvars, engines,
                  dispatched, sent, handler_started, ingress >>

\* ------------------------------------------------------- ingress loop
\* _handle_incoming_packets at "while self._listening and self._socket"
IngressLoop ==
  /\ ingress[0] > 0
  /\ IF listening /\ socket # 0
     THEN ingress' = [ingress EXCEPT ![0] = @ - 1, ![socket] = @ + 1]
     ELSE ingress' = [ingress EXCEPT ![0] = @ - 1]
  /\ UNCHANGED << rtvars, stats, lsvars, cfgvars, engines, tasks, dispatched,
                  lock, waiters, cur, sent, handler_started >>

\* recvfrom returns a datagram: start_soon(_process_packet, data, addr)
IngressRecv ==
  /\ socket # 0
  /\ ingress[socket] > 0
  /\ dispatched < budget
  /\ \E addr \in peers :
     \E data \in Datagrams(menu, {ServerCid(k) : k \in 1..Len(engines)}) :
       /\ tasks' = tasks \cup {[id |-> dispatched + 1, data |-> data,
                                addr |-> addr, pc |-> "new"]}
  /\ dispatched' = dispatched + 1
  /\ IF listening
     THEN UNCHANGED ingress
     ELSE ingress' = [ingress EXCEPT ![socket] = @ - 1]
  /\ UNCHANGED << rtvars, stats, lsvars, cfgvars, engines, lock, waiters, cur,
                  sent, handler_started >>

\* recvfrom raises a transient error: sleep, then the loop test
IngressError ==
  /\ socket # 0
  /\ ingress[socket] > 0
  /\ ingress' = [ingress EXCEPT ![socket] = @ - 1, ![0] = @ + 1]
  /\ UNCHANGED << rtvars, stats, lsvars, cfgvars, engines, tasks, dispatched,
                  lock, waiters, cur, sent, handler_started >>

\* recvfrom on a closed socket: ClosedResourceError, the loop ends
IngressClosed ==
  /\ \E s \in 1..2 :
       /\ s # socket
       /\ ingress[s] > 0
       /\ ingress' = [ingress EXCEPT ![s] = @ - 1]
  /\ UNCHANGED << rtvars, stats, lsvars, cfgvars, engines, tasks, dispatched,
                  lock, waiters, cur, sent, handler_started >>

\* --------------------------------------------- a datagram inside the lock
\* what a task inside the lock can change
LS == [rt |-> RT, stats |-> stats, engines |-> engines, cur |-> cur,
       sent |-> sent, handler_started |-> handler_started]

SetLS(l) ==
  /\ SetRT(l.rt)
  /\ stats' = l.stats
  /\ engines' = l.engines
  /\ cur' = l.cur
  /\ sent' = l.sent
  /\ handler_started' = l.handler_started

Leave(l, log) == [l EXCEPT !.cur.pc = "exit", !.cur.log = log, !.cur.n = 0]

\* variant of send_version_negotiation: the reply goes out twice
send_version_negotiation_twice(l, addr, source_cid) ==
  LET l1 == [l EXCEPT !.stats = Bump(@, "version_negotiations")]
      packet == vn_packet(source_cid, supported_versions)
      reply == [data |-> packet, to |-> addr]
  IN  IF socket # 0
      THEN { Leave([l1 EXCEPT !.sent = @ \o << reply, reply >>], "vn_sent"),
             Leave(l1, "vn_send_failed") }
      ELSE { Leave(l1, "vn_no_socket") }

\* _send_version_negotiation: the counter, the packet, sendto if a socket
send_version_negotiation(l, addr, source_cid) ==
  LET l1 == [l EXCEPT !.stats = Bump(@, "version_negotiations")]
      packet == vn_packet(source_cid, supported_versions)
  IN  IF socket # 0
      THEN { Leave([l1 EXCEPT !.sent = Append(@, [data |-> packet, to |-> addr])],
                   "vn_sent"),
             Leave(l1, "vn_send_failed") }
      ELSE { Leave(l1, "vn_no_socket") }

\* _route_to_connection: the wrapper takes the datagram, or raises
route_to_connection(l, dest_cid, addr) ==
  LET l1 == [l EXCEPT !.cur.cid = dest_cid,
                      !.cur.engine = l.rt.connections[dest_cid].quic,
                      !.cur.via = "established"]
  IN  { Leave(l1, "routed") }
      \cup { Leave([l1 EXCEPT !.rt = remove_connection_by_addr(@, addr, cr)],
                   "route_error") : cr \in BOOLEAN }

\* _handle_pending_connection up to the event drain: receive_datagram
handle_pending_connection(l, dest_cid) ==
  LET l1 == [l EXCEPT !.cur.cid = dest_cid,
                      !.cur.engine = l.rt.pending_connections[dest_cid],
                      !.cur.via = "pending"]
  IN  { [l1 EXCEPT !.cur.pc = "drain"],
        Leave([l1 EXCEPT !.rt = remove_pending_connection(@, dest_cid)],
              "pending_error") }

\* _handle_new_connection up to the event drain
handle_new_connection(l, addr, packet_info) ==
  IF packet_info.version \notin ConfiguredVersions
  THEN send_version_negotiation(l, addr, packet_info.source_cid)
  ELSE
    LET k == Len(l.engines) + 1
        destination_cid == ServerCid(k)
        l1 == [l EXCEPT !.rt = store_pending(@, destination_cid, k, addr),
                        !.engines = Append(@, [state |-> "handshake",
                                               peer |-> addr]),
                        !.cur.cid = destination_cid,
                        !.cur.engine = k,
                        !.cur.via = "new"]
    IN  { Leave([l EXCEPT !.stats = Bump(@, "connections_rejected")],
                "new_create_failed"),
          Leave([l1 EXCEPT !.stats = Bump(@, "connections_rejected")],
                "new_error"),
          [l1 EXCEPT !.cur.pc = "drain"] }

\* _handle_short_header_packet
handle_short_header_packet(l, addr) ==
  IF addr \in DOMAIN l.rt.addr_to_cid
  THEN LET dest_cid == l.rt.addr_to_cid[addr]
       IN  IF dest_cid \in DOMAIN l.rt.connections
           THEN route_to_connection(l, dest_cid, addr)
           ELSE IF dest_cid \in DOMAIN l.rt.pending_connections
           THEN handle_pending_connection(l, dest_cid)
           ELSE { Leave(l, "short_dangling") }
  ELSE { Leave(l, "short_unknown") }

\* _process_packet, "Check for existing connection by address BEFORE creating new"
route_by_address(l, addr, packet_info) ==
  IF addr \in DOMAIN l.rt.addr_to_cid
  THEN LET existing_cid == l.rt.addr_to_cid[addr]
       IN  IF existing_cid \in DOMAIN l.rt.pending_connections
           THEN handle_pending_connection(l, existing_cid)
           ELSE IF existing_cid \in DOMAIN l.rt.connections
           THEN route_to_connection(l, existing_cid, addr)
           ELSE LET l1 == [l EXCEPT !.rt.addr_to_cid = Without(@, addr)]
                IN  IF packet_info.packet_type = 0
                    THEN handle_new_connection(l1, addr, packet_info)
                    ELSE { Leave(l1, "dangling_dropped") }
  ELSE IF packet_info.packet_type = 0
       THEN handle_new_connection(l, addr, packet_info)
       ELSE { Leave(l, "ignored") }

\* variant of process_packet: the source address is consulted before the DCID
process_packet_address_first(l, data, addr) ==
  LET packet_info == parse_quic_packet(data)
  IN  IF packet_info.some
      THEN IF packet_info.version = 0
           THEN { Leave(l, "vn_ignored") }
           ELSE IF packet_info.version \notin supported_versions
           THEN send_version_negotiation(l, addr, packet_info.source_cid)
           ELSE LET dest_cid == packet_info.destination_cid
                IN  IF addr \in DOMAIN l.rt.addr_to_cid
                    THEN route_by_address(l, addr, packet_info)
                    ELSE IF dest_cid \in DOMAIN l.rt.connections
                    THEN route_to_connection(l, dest_cid, addr)
                    ELSE IF dest_cid \in DOMAIN l.rt.pending_connections
                    THEN handle_pending_connection(l, dest_cid)
                    ELSE route_by_address(l, addr, packet_info)
      ELSE handle_short_header_packet(l, addr)

\* _process_packet inside the lock, up to the first event drain
process_packet(l, data, addr) ==
  LET packet_info == parse_quic_packet(data)
  IN  IF packet_info.some
      THEN IF packet_info.version = 0
           THEN { Leave(l, "vn_ignored") }
           ELSE IF packet_info.version \notin supported_versions
           THEN send_version_negotiation(l, addr, packet_info.source_cid)
           ELSE LET dest_cid == packet_info.destination_cid
                IN  IF dest_cid \in DOMAIN l.rt.connections
                    THEN route_to_connection(l, dest_cid, addr)
                    ELSE IF dest_cid \in DOMAIN l.rt.pending_connections
                    THEN handle_pending_connection(l, dest_cid)
                    ELSE route_by_address(l, addr, packet_info)
      ELSE handle_short_header_packet(l, addr)

\* what the caller of _process_quic_events does when the drain raises:
\* _handle_pending_connection removes the pending entry,
\* _handle_new_connection counts a rejection
drain_raised(l) ==
  IF l.cur.via = "new"
  THEN Leave([l EXCEPT !.stats = Bump(@, "connections_rejected")], "new_error")
  ELSE Leave([l EXCEPT !.rt = remove_pending_connection(@, l.cur.cid)],
             "pending_error")

\* whether connection.close() may raise matters only if there is a connection
CloseChoices(l, dest_cid) ==
  IF dest_cid \in DOMAIN l.rt.connections THEN BOOLEAN ELSE {FALSE}

\* _promote_pending_connection, "except Exception": remove, count a rejection
promotion_failed(l, dest_cid) ==
  { [l EXCEPT !.rt = remove_connection(@, dest_cid, cr),
              !.stats = Bump(@, "connections_rejected"),
              !.cur.log = "promote_failed"] : cr \in CloseChoices(l, dest_cid) }

\* variant of promotion_accept: the handler is started whether or not the
\* promotion then fails
promotion_accept_eager(l, dest_cid) ==
  LET l1 == [l EXCEPT !.handler_started =
                        Append(@, l.rt.connections[dest_cid].quic)]
  IN  { [l1 EXCEPT !.stats = Bump(@, "connections_accepted"),
                   !.cur.log = "accepted"] }
      \cup { [l1 EXCEPT !.rt = remove_connection(@, dest_cid, FALSE),
                        !.stats = Bump(@, "connections_rejected"),
                        !.cur.log = "promote_failed"] }

\* _promote_pending_connection from "Call the connection handler" on
promotion_accept(l, dest_cid) ==
  { [l EXCEPT !.handler_started =
                 IF nursery THEN Append(@, l.rt.connections[dest_cid].quic) ELSE @,
              !.stats = Bump(@, "connections_accepted"),
              !.cur.log = "accepted"] }
  \cup promotion_failed(l, dest_cid)

\* _promote_pending_connection up to the security verification
promote_pending_connection(l, quic_conn, addr, dest_cid) ==
  LET l1 == [l EXCEPT !.rt = pop_pending(@, dest_cid)]
      l2 == [l1 EXCEPT !.rt = store_connection(@, dest_cid,
                                               QUICConnection(quic_conn, addr))]
  IN  promotion_failed(l1, dest_cid)
      \cup promotion_failed(l2, dest_cid)
      \cup (IF security_manager
            THEN { [l2 EXCEPT !.cur.pc = "verify"] }
            ELSE promotion_accept(l2, dest_cid))

\* _promote_pending_connection, "Handle security verification": the awaited
\* _verify_peer_identity_with_security returns or raises
verify_peer_identity(l, dest_cid) ==
  LET back == [l EXCEPT !.cur.pc = "drain"]
  IN  promotion_accept(back, dest_cid)
      \cup { [back EXCEPT !.rt.connections[dest_cid].is_closed = TRUE,
                          !.cur.log = "verify_failed"] }
      \cup promotion_failed(back, dest_cid)

\* the events next_event may return for an engine in a given state
EngineEvents(state) ==
  IF state = "handshake"
  THEN {"HandshakeCompleted", "ConnectionTerminated", "StreamDataReceived",
        "StreamReset"}
  ELSE IF state = "connected"
  THEN {"ConnectionTerminated", "StreamDataReceived", "StreamReset"}
  ELSE {}

\* _process_quic_events: one turn of "while True"
process_quic_event(l, event) ==
  LET dest_cid == l.cur.cid
      l1 == [l EXCEPT !.cur.n = @ + 1]
  IN  IF event = "None"
      THEN { [l EXCEPT !.cur.pc = "transmit", !.cur.n = 0] }
      ELSE IF event = "ConnectionTerminated"
      THEN { [l1 EXCEPT !.engines[l.cur.engine].state = "terminated",
                        !.rt = remove_connection(@, dest_cid, cr),
                        !.cur.pc = "transmit",
                        !.cur.n = 0] : cr \in CloseChoices(l, dest_cid) }
      ELSE IF event = "HandshakeCompleted"
      THEN promote_pending_connection(
             [l1 EXCEPT !.engines[l.cur.engine].state = "connected"],
             l.cur.engine, l.cur.addr, dest_cid)
      ELSE IF dest_cid \in DOMAIN l.rt.connections
           THEN { l1, drain_raised(l1) }
           ELSE { l1 }

\* the (bytes, addr) lists datagrams_to_send may return
EngineDatagrams ==
  UNION { [1..k -> [data : {<< 1 >>}, to : Addrs]] : k \in 0..MaxOut }

RECURSIVE send_all(_, _, _)
\* "for datagram, dest_addr in datagrams: sendto(datagram, addr)";
\* failed: the positions whose sendto raises
send_all(datagrams, addr, failed) ==
  IF Len(datagrams) = 0 THEN << >>
  ELSE LET rest == send_all(Tail(datagrams), addr, {i - 1 : i \in failed \ {1}})
       IN  IF 1 \in failed THEN rest
           ELSE << [data |-> Head(datagrams).data, to |-> addr] >> \o rest

\* _transmit_for_connection: datagrams_to_send, return if empty, the sendto
\* loop, then datagrams_to_send once more, whose result is only counted
transmit_for_connection(l, addr) ==
  { Leave([l EXCEPT !.cur.fetched = dgs,
                    !.cur.remaining_datagrams = rem,
                    !.sent = IF socket # 0
                             THEN @ \o send_all(dgs, addr, failed)
                             ELSE @],
          IF l.cur.log = "none" THEN "handled" ELSE l.cur.log) :
      dgs \in EngineDatagrams \ {<< >>},
      rem \in EngineDatagrams,
      failed \in IF socket # 0 THEN SUBSET (1..MaxOut) ELSE {{}} }
  \cup { Leave([l EXCEPT !.cur.fetched = << >>],
                IF l.cur.log = "none" THEN "handled" ELSE l.cur.log) }

\* ------------------------------------------------------- task actions
TaskUnchanged ==
  UNCHANGED << lsvars, cfgvars, tasks, dispatched, lock, waiters, ingress >>

\* variant of TaskStart: any started task may reach the lock first
TaskStart_any_order ==
  \E t \in tasks :
    /\ t.pc = "new"
    /\ stats' = Bump(stats, "packets_processed")
    /\ IF lock = "free"
       THEN /\ lock' = "task"
            /\ cur' = EnterCur(t)
            /\ tasks' = tasks \ {t}
            /\ UNCHANGED waiters
       ELSE /\ tasks' = (tasks \ {t}) \cup {[t EXCEPT !.pc = "wait"]}
            /\ waiters' = Append(waiters, t.id)
            /\ UNCHANGED << lock, cur >>
    /\ UNCHANGED << rtvars, lsvars, cfgvars, engines, dispatched, sent,
                    handler_started, ingress >>

\* _process_packet from its start to "async with self._connection_lock";
\* a task started with start_soon first runs in the scheduler pass after the
\* one that started it, so the tasks start in the order of their dispatch
TaskStart ==
  \E t \in tasks :
    /\ t.pc = "new"
    /\ \A u \in tasks : u.pc = "new" => u.id >= t.id
    /\ stats' = Bump(stats, "packets_processed")
    /\ IF lock = "free"
       THEN /\ lock' = "task"
            /\ cur' = EnterCur(t)
            /\ tasks' = tasks \ {t}
            /\ UNCHANGED waiters
       ELSE /\ tasks' = (tasks \ {t}) \cup {[t EXCEPT !.pc = "wait"]}
            /\ waiters' = Append(waiters, t.id)
            /\ UNCHANGED << lock, cur >>
    /\ UNCHANGED << rtvars, lsvars, cfgvars, engines, dispatched, sent,
                    handler_started, ingress >>

\* parse result, version checks, routing, up to the first event drain
Classify ==
  /\ cur.pc = "classify"
  /\ \E l \in process_packet(LS, cur.data, cur.addr) : SetLS(l)
  /\ TaskUnchanged

\* one next_event() of the drain
Drain ==
  /\ cur.pc = "drain"
  /\ \E event \in {"None"} \cup
                  (IF cur.n < MaxEvents
                   THEN EngineEvents(engines[cur.engine].state) ELSE {}) :
       \E l \in process_quic_event(LS, event) : SetLS(l)
  /\ TaskUnchanged

\* the security verification returns
Verify ==
  /\ cur.pc = "verify"
  /\ \E l \in verify_peer_identity(LS, cur.cid) : SetLS(l)
  /\ TaskUnchanged

\* datagrams_to_send and the sendto calls
Transmit ==
  /\ cur.pc = "transmit"
  /\ \E l \in transmit_for_connection(LS, cur.addr) : SetLS(l)
  /\ TaskUnchanged

\* variant of TaskExit: the early return for a version-negotiation packet
\* leaves without releasing the lock
TaskExit_keeping_lock ==
  /\ cur.pc = "exit"
  /\ sent' = << >>
  /\ IF cur.log = "vn_ignored"
     THEN /\ cur' = IdleCur
          /\ UNCHANGED << lock, waiters, tasks, close_pc >>
     ELSE Release
  /\ UNCHANGED << rtvars, stats, socket, bound_addresses, listening, closed,
                  nursery, api, cfgvars, engines, dispatched, handler_started,
                  ingress >>

\* the task leaves "async with": the lock is released
TaskExit ==
  /\ cur.pc = "exit"
  /\ sent' = << >>
  /\ Release
  /\ UNCHANGED << rtvars, stats, socket, bound_addresses, listening, closed,
                  nursery, api, cfgvars, engines, dispatched, handler_started,
                  ingress >>

Next ==
  \/ ListenOk
  \/ ListenAlready
  \/ ListenInvalid
  \/ ListenBindFailed
  \/ CloseCall
  \/ CloseFinish
  \/ CloseNoop
  \/ IngressLoop
  \/ IngressRecv
  \/ IngressError
  \/ IngressClosed
  \/ TaskStart
  \/ Classify
  \/ Drain
  \/ Verify
  \/ Transmit
  \/ TaskExit

Spec == Init /\ [][Next]_vars

\* ------------------------------------- the version-negotiation builder
\* supported-version sets a listener may be configured with
VersionPool == {V1, V2, VBad, unpack_u32(<< 0, 0, 1, 0 >>)}
\* a version outside every such set
VNone == unpack_u32(<< 26, 42, 58, 74 >>)
\* source connection ids of the triggering packet
ScidPool ==
  UNION { [1..k -> {0, 5, 255}] : k \in 0..2 } \cup { [i \in 1..20 |-> i] }

\* a listening listener, any supported-version set, one task inside the lock
\* holding an Initial packet of an unsupported version
InitVN ==
  /\ connections = EmptyMap
  /\ pending_connections = EmptyMap
  /\ addr_to_cid = EmptyMap
  /\ cid_to_addr = EmptyMap
  /\ stats = [connections_accepted |-> 0, connections_rejected |-> 0,
              version_negotiations |-> 0, packets_processed |-> 1,
              invalid_packets |-> 0]
  /\ socket = 1
  /\ bound_addresses = << 1 >>
  /\ listening = TRUE
  /\ closed = FALSE
  /\ nursery = TRUE
  /\ engines = << >>
  /\ tasks = {}
  /\ dispatched = 1
  /\ lock = "task"
  /\ waiters = << >>
  /\ sent = << >>
  /\ handler_started = << >>
  /\ ingress = [s \in 0..2 |-> IF s = 1 THEN 1 ELSE 0]
  /\ close_pc = "idle"
  /\ api = "none"
  /\ supported_versions \in SUBSET VersionPool
  /\ security_manager = TRUE
  /\ peers = {"A"}
  /\ menu = "handshake"
  /\ may_close = FALSE
  /\ budget = 1
  /\ \E scid \in ScidPool :
       cur = EnterCur([id |-> 1, addr |-> "A",
                       data |-> long_header(192, VNone, ClientDcid, scid, << 0 >>)])

NextVN ==
  \/ Classify
  \/ TaskExit

SpecVN == InitVN /\ [][NextVN]_vars

\* ------------------------------------------------------------- claims
Sessions == DOMAIN pending_connections \cup DOMAIN connections

\* the engine of the session stored under cid c
EngineOf(c) ==
  IF c \in DOMAIN connections THEN connections[c].quic
  ELSE pending_connections[c]

\* C1: in every reachable state addr->cid and cid->addr are mutual inverses:
\* cid->addr maps c to a exactly when addr->cid maps a to c.
C1_MutualInverses ==
  /\ \A c \in DOMAIN cid_to_addr :
       /\ cid_to_addr[c] \in DOMAIN addr_to_cid
       /\ addr_to_cid[cid_to_addr[c]] = c
  /\ \A a \in DOMAIN addr_to_cid :
       /\ addr_to_cid[a] \in DOMAIN cid_to_addr
       /\ cid_to_addr[addr_to_cid[a]] = a

\* C2: when every datagram comes from one source address, the pending and the
\* established map together hold at most one session created for that address.
C2_OneSessionPerAddress ==
  \A a \in Addrs :
    peers = {a} =>
      Cardinality({ c \in Sessions : engines[EngineOf(c)].peer = a }) <= 1

\* C3: once close() has returned (and listen() has not been called again) the
\* four maps are empty and the listener holds no socket.
C3_NoLeakAfterClose ==
  (close_pc = "done" /\ ~listening) =>
    /\ pending_connections = EmptyMap
    /\ connections = EmptyMap
    /\ addr_to_cid = EmptyMap
    /\ cid_to_addr = EmptyMap
    /\ socket = 0

\* C4: whenever no datagram is being processed, the cids with a cid->addr
\* entry are exactly the cids of the pending and the established map.
C4_RoutingEntriesLiveWithSession ==
  cur.pc = "idle" => DOMAIN cid_to_addr = Sessions

\* C5: no cid is a key of both the pending and the established map, in any
\* reachable state, the states inside a promotion included.
C5_PendingEstablishedDisjoint ==
  DOMAIN pending_connections \cap DOMAIN connections = {}

\* a promotion in progress: the session is stored as established while its
\* peer identity is being verified
C5_Witness ==
  /\ cur.pc = "verify"
  /\ cur.cid \in DOMAIN connections
  /\ cur.cid \notin DOMAIN pending_connections

\* a step in which an error is raised while a datagram is handed to a session
ErrorLogs == {"route_error", "pending_error", "new_error", "promote_failed"}

ErrorStep ==
  /\ cur.pc \in {"classify", "drain", "verify", "transmit"}
  /\ cur'.pc # "idle"
  /\ cur'.log \in ErrorLogs
  /\ cur'.log # cur.log

\* session c and its address mappings survive the step
Preserved(c) ==
  /\ c \in DOMAIN pending_connections => c \in DOMAIN pending_connections'
  /\ c \in DOMAIN connections => c \in DOMAIN connections'
  /\ c \in DOMAIN cid_to_addr =>
       c \in DOMAIN cid_to_addr' /\ cid_to_addr'[c] = cid_to_addr[c]
  /\ \A a \in DOMAIN addr_to_cid :
       addr_to_cid[a] = c => a \in DOMAIN addr_to_cid' /\ addr_to_cid'[a] = c

\* C6: an error raised while a datagram is handed to session S removes no
\* other session from the pending or established map and none of another
\* session's address mappings, whatever address the datagram came from.
C6_ErrorConfinedToSession ==
  [][ErrorStep =>
       \A c \in Sessions \ {cur'.cid} : Preserved(c)]_vars

\* the step of _promote_pending_connection that ends the promotion with success
AcceptStep ==
  /\ cur.pc \in {"drain", "verify"}
  /\ cur'.pc # "idle"
  /\ cur.log # "accepted"
  /\ cur'.log = "accepted"

\* the step that stores the wrapper and then awaits the identity verification
StoreStep == cur.pc = "drain" /\ cur'.pc = "verify"

\* C7: when HandshakeCompleted is signalled for a pending session and the
\* promotion succeeds, the session is then established under the same cid and
\* no longer pending, its addr->cid and cid->addr entries are unchanged, the
\* wrapper is server-side, and connections_accepted has grown by exactly 1.
C7_Promotion ==
  [][/\ StoreStep =>
          /\ cur.cid \in DOMAIN pending_connections
          /\ cur'.cid = cur.cid
          /\ addr_to_cid' = addr_to_cid
          /\ cid_to_addr' = cid_to_addr
          /\ stats'.connections_accepted = stats.connections_accepted
     /\ AcceptStep =>
          /\ cur'.cid = cur.cid
          /\ cur.cid \in DOMAIN pending_connections \cup DOMAIN connections
          /\ cur.cid \in DOMAIN connections'
          /\ cur.cid \notin DOMAIN pending_connections'
          /\ connections'[cur.cid].quic = cur.engine
          /\ connections'[cur.cid].is_initiator = FALSE
          /\ addr_to_cid' = addr_to_cid
          /\ cid_to_addr' = cid_to_addr
          /\ stats'.connections_accepted = stats.connections_accepted + 1]_vars

\* a promotion has succeeded after the identity verification
C7_Witness ==
  /\ cur.pc = "drain"
  /\ cur.log = "accepted"
  /\ security_manager
  /\ cur.cid \in DOMAIN connections
  /\ stats.connections_accepted = 1

\* C8: the handler is started once per accepted connection: the number of
\* handler tasks started equals connections_accepted, and no connection is
\* handed to the handler twice.
C8_HandlerOncePerAccepted ==
  /\ Len(handler_started) = stats.connections_accepted
  /\ \A i, j \in 1..Len(handler_started) :
       handler_started[i] = handler_started[j] => i = j

\* two connections have been accepted
C8_Witness ==
  /\ stats.connections_accepted = 2
  /\ Len(handler_started) = 2

\* big-endian value of the four bytes of d that start at position i (1-based)
WordAt(d, i) ==
  ((d[i] * 256 + d[i + 1]) * 256 + d[i + 2]) * 256 + d[i + 3]

\* d has the long-header bit and a complete version field
HasVersion(d) == Len(d) >= 5 /\ d[1] >= 128

\* d is a version-negotiation packet: long header, version field zero
IsVersionNegotiation(d) == HasVersion(d) /\ WordAt(d, 2) = 0

\* the task inside the lock classifies its datagram in this step
ClassifyStep == cur.pc = "classify" /\ cur'.pc # "classify"

Unsupported(d) == WordAt(d, 2) # 0 /\ WordAt(d, 2) \notin supported_versions

ScidField(d) ==
  LET n == d[6]
      m == d[7 + n]
  IN  SubSeq(d, 8 + n, 7 + n + m)

\* C10: the version-negotiation datagram is byte 0xF0, four zero bytes, one
\* byte with the length of the client's SCID, that SCID, one byte 0x00, then
\* every supported version once, 4 bytes big-endian each, in ascending order.
C10_VersionNegotiationLayout ==
  (cur.pc = "exit" /\ cur.log = "vn_sent") =>
    /\ Len(sent) = 1
    /\ LET pkt == sent[1].data
           scid == ScidField(cur.data)
           n == Len(scid)
           k == Cardinality(supported_versions)
           version(i) == WordAt(pkt, 8 + n + 4 * (i - 1))
       IN  /\ Len(pkt) = 7 + n + 4 * k
           /\ pkt[1] = 240
           /\ \A i \in 2..5 : pkt[i] = 0
           /\ pkt[6] = n
           /\ SubSeq(pkt, 7, 6 + n) = scid
           /\ pkt[7 + n] = 0
           /\ \A i \in 1..k : version(i) \in supported_versions
           /\ \A i \in 1..k : \A j \in 1..k : i < j => version(i) < version(j)
           /\ \A i \in 1..Len(pkt) : pkt[i] \in 0..255

\* a reply that echoes a two-byte SCID and lists three or more versions
C10_Witness ==
  /\ cur.pc = "exit"
  /\ cur.log = "vn_sent"
  /\ Len(ScidField(cur.data)) = 2
  /\ Cardinality(supported_versions) >= 3
  /\ Len(sent) = 1

\* the established sessions whose wrapper was built for address a
EstablishedFor(a) ==
  { c \in DOMAIN connections : connections[c].remote_addr = a }

\* the datagram being classified parses to a header of a supported version
\* whose DCID is a key of neither session map
UnknownDcid(d) ==
  LET packet_info == parse_quic_packet(d)
  IN  /\ packet_info.some
      /\ packet_info.version \in supported_versions
      /\ packet_info.destination_cid \notin Sessions

\* C11: a long-header datagram of a supported version, with a DCID that is a
\* key of neither session map, from an address that has an established
\* session, is handed to that session; no session is created and
\* connections_accepted is unchanged.
C11_AddressFallback ==
  [][(/\ ClassifyStep
      /\ UnknownDcid(cur.data)
      /\ EstablishedFor(cur.addr) # {}) =>
       /\ cur'.via = "established"
       /\ cur'.cid \in EstablishedFor(cur.addr)
       /\ cur'.log \in {"routed", "route_error"}
       /\ Len(engines') = Len(engines)
       /\ DOMAIN pending_connections' \subseteq DOMAIN pending_connections
       /\ DOMAIN connections' \subseteq DOMAIN connections
       /\ stats'.connections_accepted = stats.connections_accepted]_vars

\* d has the long-header bit but the parser returns None for it
TruncatedLongHeader(d) ==
  /\ Len(d) >= 1
  /\ d[1] >= 128
  /\ ~parse_quic_packet(d).some

\* C12: a long-header datagram with a truncated header (the parser returns
\* None), from an address with no mapping, adds 1 to invalid_packets, creates
\* no session and is handed to no engine.
C12_TruncatedCounted ==
  [][(/\ ClassifyStep
      /\ TruncatedLongHeader(cur.data)
      /\ cur.addr \notin DOMAIN addr_to_cid) =>
       /\ stats'.invalid_packets = stats.invalid_packets + 1
       /\ Len(engines') = Len(engines)
       /\ RT' = RT
       /\ cur'.engine = 0]_vars

\* ------------------------------------------------------ the packet parser
\* what may follow the SCID: a token-length integer of width 1, 2, 4 or 8 and
\* token bytes (one of them short of its advertised token)
TokenFields ==
  { << 0 >>, << 2, 7, 7 >>, << 3, 7 >>, << 64, 1, 7 >>,
    << 128, 0, 0, 1, 7 >>, << 192, 0, 0, 0, 0, 0, 0, 1, 7 >> }

\* well-formed short-header, Initial and Handshake packets
ParseFull ==
  { long_header(first, V1, dcid, scid, rest) :
      first \in {64, 192, 224}, dcid \in {<< >>, ClientDcid},
      scid \in {<< >>, ClientScid}, rest \in TokenFields }

\* every prefix of such a packet, the empty string included
ParseInputs ==
  UNION { { Slice(d, 0, k) : k \in 0..Len(d) } : d \in ParseFull }

\* a listening listener with no session and one task inside the lock that
\* holds a datagram drawn from ParseInputs
InitParse ==
  /\ connections = EmptyMap
  /\ pending_connections = EmptyMap
  /\ addr_to_cid = EmptyMap
  /\ cid_to_addr = EmptyMap
  /\ stats = [connections_accepted |-> 0, connections_rejected |-> 0,
              version_negotiations |-> 0, packets_processed |-> 1,
              invalid_packets |-> 0]
  /\ socket = 1
  /\ bound_addresses = << 1 >>
  /\ listening = TRUE
  /\ closed = FALSE
  /\ nursery = TRUE
  /\ engines = << >>
  /\ tasks = {}
  /\ dispatched = 1
  /\ lock = "task"
  /\ waiters = << >>
  /\ sent = << >>
  /\ handler_started = << >>
  /\ ingress = [s \in 0..2 |-> IF s = 1 THEN 1 ELSE 0]
  /\ close_pc = "idle"
  /\ api = "none"
  /\ supported_versions = ListenerVersions
  /\ security_manager = TRUE
  /\ peers = {"A"}
  /\ menu = "short"
  /\ may_close = FALSE
  /\ budget = 1
  /\ \E d \in ParseInputs :
       cur = EnterCur([id |-> 1, addr |-> "A", data |-> d])

NextParse ==
  \/ Classify
  \/ Drain
  \/ Verify
  \/ Transmit
  \/ TaskExit

SpecParse == InitParse /\ [][NextParse]_vars

\* width of the variable-length integer whose first byte is b
VarintWidth(b) ==
  IF b < 64 THEN 1 ELSE IF b < 128 THEN 2 ELSE IF b < 192 THEN 4 ELSE 8

\* bytes the header h read from d accounts for: first byte, version, the two
\* length bytes and connection ids and, for an Initial, the token-length
\* integer and the token
AdvertisedLength(d, h) ==
  LET fixed == 1 + 4 + 1 + Len(h.destination_cid) + 1 + Len(h.source_cid)
  IN  IF h.packet_type = 0
      THEN fixed + VarintWidth(d[fixed + 1]) + Len(h.token)
      ELSE fixed

\* C13: for every byte string the parser returns None or a header whose
\* advertised lengths sum to at most the length of the string, and None
\* whenever bit 0x80 of the first byte is clear.
C13_ParserSafety ==
  cur.pc \notin {"idle", "classify"} =>
    LET h == parse_quic_packet(cur.data)
    IN  /\ h.some => AdvertisedLength(cur.data, h) <= Len(cur.data)
        /\ (Len(cur.data) >= 1 /\ cur.data[1] < 128) => ~h.some
        /\ ~h.some => cur.log = "short_unknown"

\* ------------------------------- a version negotiation fed back
\* a listening listener, any supported-version set, one task inside the lock
\* holding the datagram the builder makes for some client SCID
InitVNBack ==
  /\ connections = EmptyMap
  /\ pending_connections = EmptyMap
  /\ addr_to_cid = EmptyMap
  /\ cid_to_addr = EmptyMap
  /\ stats = [connections_accepted |-> 0, connections_rejected |-> 0,
              version_negotiations |-> 0, packets_processed |-> 1,
              invalid_packets |-> 0]
  /\ socket = 1
  /\ bound_addresses = << 1 >>
  /\ listening = TRUE
  /\ closed = FALSE
  /\ nursery = TRUE
  /\ engines = << >>
  /\ tasks = {}
  /\ dispatched = 1
  /\ lock = "task"
  /\ waiters = << >>
  /\ sent = << >>
  /\ handler_started = << >>
  /\ ingress = [s \in 0..2 |-> IF s = 1 THEN 1 ELSE 0]
  /\ close_pc = "idle"
  /\ api = "none"
  /\ supported_versions \in SUBSET VersionPool
  /\ security_manager = TRUE
  /\ peers = {"A"}
  /\ menu = "stray"
  /\ may_close = FALSE
  /\ budget = 1
  /\ \E scid \in ScidPool :
       cur = EnterCur([id |-> 1, addr |-> "A",
                       data |-> vn_packet(scid, supported_versions)])

NextVNBack ==
  \/ Classify
  \/ TaskExit

SpecVNBack == InitVNBack /\ [][NextVNBack]_vars

\* C14: the datagram the builder makes for any client SCID and any
\* supported-version set, fed back into the listener, parses to a header with
\* version 0 and DCID equal to that SCID, and processing it sends nothing,
\* creates no session and changes no map.
C14_VersionNegotiationRejected ==
  [][ClassifyStep =>
       \E scid \in ScidPool :
         /\ cur.data = vn_packet(scid, supported_versions)
         /\ parse_quic_packet(cur.data).some
         /\ parse_quic_packet(cur.data).version = 0
         /\ parse_quic_packet(cur.data).destination_cid = scid
         /\ cur'.pc = "exit"
         /\ cur'.log = "vn_ignored"
         /\ sent' = << >>
         /\ engines' = engines
         /\ RT' = RT
         /\ stats' = stats]_vars

\* a fed-back version negotiation that echoes a 20-byte SCID and lists three
\* or more versions has been processed
C14_Witness ==
  /\ cur.pc = "exit"
  /\ cur.log = "vn_ignored"
  /\ Len(parse_quic_packet(cur.data).destination_cid) = 20
  /\ Cardinality(supported_versions) >= 3

\* ---------------------------------------------------- listen and close
\* is_listening()
is_listening == listening /\ ~closed

\* get_addresses()
get_addresses == bound_addresses

\* a pending session was removed while its handshake was still running
PendingWasRemoved ==
  \E k \in 1..Len(engines) :
    engines[k].state = "handshake" /\ ServerCid(k) \notin Sessions

\* C15: after close() was called with a pending session present, a following
\* listen() succeeds and the listener is listening again: is_listening() is
\* true and the addresses are non-empty.
C15_ListenAfterClose ==
  (close_pc = "done" /\ PendingWasRemoved /\ listening) =>
    /\ socket # 0
    /\ is_listening
    /\ get_addresses # << >>

\* the ways a listen() call ends
ListenOutcomes ==
  {"listen_ok", "already_listening", "invalid_multiaddr", "listen_failed"}

\* a listen() call ends in this step
ListenReturns == api' # api /\ api' \in ListenOutcomes

\* C16: listen() on a listener that is listening raises "Already listening"
\* and changes nothing: socket, bound addresses, flags, nursery, ingress
\* loops, sessions, routing maps and counters are as before.
C16_ListenTwice ==
  [][(listening /\ ListenReturns) =>
       /\ api' = "already_listening"
       /\ UNCHANGED << rtvars, stats, socket, bound_addresses, listening,
                       closed, nursery, close_pc, engines, tasks, dispatched,
                       lock, waiters, cur, sent, handler_started, ingress >>]_vars

\* listen() was refused on a listening listener that has an established session
C16_Witness ==
  /\ api = "already_listening"
  /\ listening
  /\ socket # 0
  /\ connections # EmptyMap

\* a close() call returns in this step
CloseReturns == api' # api /\ api' \in {"close_returned", "close_noop"}

\* C17: close() is idempotent: when a close() call returns, the first or a
\* repeated one, the listener is not listening and has no session, no socket
\* and no bound address; a repeated call changes nothing.
C17_CloseIdempotent ==
  [][CloseReturns =>
       /\ ~listening'
       /\ socket' = 0
       /\ bound_addresses' = << >>
       /\ pending_connections' = EmptyMap
       /\ connections' = EmptyMap
       /\ api' = "close_noop" =>
            UNCHANGED << rtvars, stats, socket, bound_addresses, listening,
                            closed, nursery, close_pc, engines >>]_vars

\* the awaited peer-identity verification raises in this step
VerificationFails == cur.pc = "verify" /\ cur'.log = "verify_failed"

\* C18: when the peer-identity verification fails during promotion the
\* connection is closed, connections_rejected grows by 1, connections_accepted
\* does not grow, no handler is started and the cid is in neither session map.
C18_VerificationFailure ==
  [][VerificationFails =>
       /\ stats'.connections_rejected = stats.connections_rejected + 1
       /\ stats'.connections_accepted = stats.connections_accepted
       /\ handler_started' = handler_started
       /\ cur.cid \notin DOMAIN pending_connections'
       /\ cur.cid \notin DOMAIN connections']_vars

\* the engine or the wrapper raises in this step while the datagram is
\* received or its events are drained
EngineRaises ==
  /\ cur.pc \in {"classify", "drain"}
  /\ cur'.pc = "exit"
  /\ cur'.log \in {"new_error", "pending_error", "route_error"}

\* C19: when the engine raises for a session, on the first datagram of a new
\* session or on a later one, the session leaves the pending or established
\* map together with both of its address mappings, and the listener goes on.
C19_FailedSessionRemoved ==
  [][EngineRaises =>
       /\ cur'.cid \notin DOMAIN pending_connections'
       /\ cur'.cid \notin DOMAIN connections'
       /\ cur'.cid \notin DOMAIN cid_to_addr'
       /\ \A a \in DOMAIN addr_to_cid' : addr_to_cid'[a] # cur'.cid
       /\ UNCHANGED << socket, listening, ingress >>]_vars

TerminatedStep ==
  /\ cur.pc = "drain"
  /\ cur'.pc = "transmit"
  /\ engines[cur.engine].state # "terminated"
  /\ engines'[cur.engine].state = "terminated"

\* C21: when the event drain of a session meets ConnectionTerminated, the
\* session's cid is afterwards a key of neither session map and both of its
\* address mappings are gone.
C21_TerminatedRemoved ==
  [][TerminatedStep =>
       /\ cur.cid \notin DOMAIN pending_connections'
       /\ cur.cid \notin DOMAIN connections'
       /\ cur.cid \notin DOMAIN cid_to_addr'
       /\ \A a \in DOMAIN addr_to_cid' : addr_to_cid'[a] # cur.cid]_vars

\* a datagram task is inside the section guarded by _connection_lock
InSection == cur.pc # "idle"

\* close() is inside its session removal
CloseInSection == close_pc = "locked"

\* C22: at most one task is inside the classification-and-dispatch section or
\* close()'s session removal: the task in the section holds the lock, close()
\* removes sessions only with the lock, the two are never inside together, and
\* until the task in the section leaves it, no other task and no close() step
\* touches the routing table or takes its place.
C22_SectionsNeverInterleave ==
  /\ [](/\ InSection <=> lock = "task"
        /\ CloseInSection <=> lock = "close"
        /\ ~(InSection /\ CloseInSection)
        /\ \A t \in tasks : t.pc \in {"new", "wait"})
  /\ [][cur.pc \in {"classify", "drain", "verify", "transmit"} =>
          /\ cur'.id = cur.id
          /\ cur'.pc # "idle"
          /\ ~CloseInSection']_vars

\* a task is draining events while close() and another task wait for the lock
C22_Witness ==
  /\ cur.pc = "drain"
  /\ cur.n > 0
  /\ close_pc = "wait"
  /\ \E t \in tasks : t.pc = "wait"

\* task t runs _process_packet from its start to the lock: it counts the
\* datagram, parses it and reads _addr_to_cid and _pending_connections
ReadsBeforeLock(t) ==
  /\ t \in tasks
  /\ t.pc = "new"
  /\ t \notin tasks'
  /\ stats'.packets_processed = stats.packets_processed + 1

\* the task with this id holds _connection_lock
HoldsLock(id) == lock = "task" /\ cur.id = id

\* C23: every read and write of the routing table happens while the task that
\* performs it holds the routing lock.
C23_AccessUnderLock ==
  [][\A t \in tasks : ReadsBeforeLock(t) => HoldsLock(t.id)]_vars

\* the addr->cid entry of address a points to a cid in neither session map
DanglingAt(a) ==
  a \in DOMAIN addr_to_cid /\ addr_to_cid[a] \notin Sessions

\* the outcomes of _handle_new_connection for an Initial from an unknown peer
NewConnectionOutcome(c) ==
  \/ c.via = "new"
  \/ c.log \in {"new_create_failed", "vn_sent", "vn_send_failed",
                "vn_no_socket"}

\* C24: a datagram from an address whose addr->cid entry is dangling, long
\* header (DCID unknown) or short header, makes the listener delete the
\* dangling mapping in both directions and then treat the datagram as from an
\* unknown peer: an Initial creates a pending session, anything else is
\* dropped.
C24_DanglingMappingDeleted ==
  [][(/\ ClassifyStep
      /\ DanglingAt(cur.addr)
      /\ \/ UnknownDcid(cur.data)
         \/ ~parse_quic_packet(cur.data).some) =>
       LET stale == addr_to_cid[cur.addr]
           packet_info == parse_quic_packet(cur.data)
       IN  /\ stale \notin DOMAIN cid_to_addr'
           /\ \A a \in DOMAIN addr_to_cid' : addr_to_cid'[a] # stale
           /\ IF packet_info.some /\ packet_info.packet_type = 0
              THEN NewConnectionOutcome(cur')
              ELSE /\ cur'.engine = 0
                   /\ pending_connections' = pending_connections
                   /\ connections' = connections]_vars

\* the datagram being classified parses to a header of a supported, non-zero
\* version
Routable(d) ==
  LET packet_info == parse_quic_packet(d)
  IN  /\ packet_info.some
      /\ packet_info.version # 0
      /\ packet_info.version \in supported_versions

\* address a is mapped to a cid that is a key of a session map
MappedToSession(a) ==
  a \in DOMAIN addr_to_cid /\ addr_to_cid[a] \in Sessions

\* C25: routing priority for a long-header datagram of a supported non-zero
\* version: a DCID that is a key of the established map wins whatever the
\* address says; else a DCID that is a key of the pending map; only then the
\* source address; a pending session is created only for an Initial with no
\* DCID match whose address leads to no session, and any other datagram with
\* no DCID match and no address mapping is dropped with sessions and counters
\* unchanged.
C25_RoutingPriority ==
  [][(ClassifyStep /\ Routable(cur.data)) =>
       LET packet_info == parse_quic_packet(cur.data)
           dest_cid == packet_info.destination_cid
       IN  /\ dest_cid \in DOMAIN connections =>
                /\ cur'.via = "established"
                /\ cur'.cid = dest_cid
                /\ cur'.engine = connections[dest_cid].quic
           /\ (dest_cid \notin DOMAIN connections
               /\ dest_cid \in DOMAIN pending_connections) =>
                /\ cur'.via = "pending"
                /\ cur'.cid = dest_cid
                /\ cur'.engine = pending_connections[dest_cid]
           /\ (dest_cid \notin Sessions /\ MappedToSession(cur.addr)) =>
                /\ cur'.via \in {"pending", "established"}
                /\ cur'.cid = addr_to_cid[cur.addr]
           /\ Len(engines') > Len(engines) =>
                /\ packet_info.packet_type = 0
                /\ dest_cid \notin Sessions
                /\ ~MappedToSession(cur.addr)
                /\ cur'.via = "new"
           /\ (dest_cid \notin Sessions
               /\ cur.addr \notin DOMAIN addr_to_cid
               /\ packet_info.packet_type # 0) =>
                /\ RT' = RT
                /\ stats' = stats
                /\ Len(engines') = Len(engines)
                /\ cur'.engine = 0
                /\ cur'.pc = "exit"]_vars

\* a datagram was routed by its DCID to an established session although it
\* came from an address that is mapped to another session
C25_Witness ==
  /\ cur.pc = "exit"
  /\ cur.log = "routed"
  /\ cur.via = "established"
  /\ Routable(cur.data)
  /\ parse_quic_packet(cur.data).destination_cid = cur.cid
  /\ cur.cid \in DOMAIN connections
  /\ connections[cur.cid].remote_addr # cur.addr
  /\ MappedToSession(cur.addr)
  /\ addr_to_cid[cur.addr] # cur.cid

\* the task inside the lock runs _transmit_for_connection in this step
TransmitStep == cur.pc = "transmit" /\ cur'.pc = "exit"

\* C26: every (bytes, destination_address) pair fetched from a pending
\* session's engine with datagrams_to_send is written to the socket exactly
\* once, addressed to the destination of its pair; none is discarded unsent.
C26_FetchedDatagramsSent ==
  [][TransmitStep =>
       LET pairs == cur'.fetched \o cur'.remaining_datagrams
       IN  sent' = sent \o [i \in 1..Len(pairs) |->
                              [data |-> pairs[i].data, to |-> pairs[i].to]]]_vars

\* engine k was stored as a pending session, never completed its handshake
\* (so it was never promoted) and is no longer in the pending map
RemovedUnpromoted(k) ==
  /\ ServerCid(k) \notin DOMAIN pending_connections
  /\ engines[k].state # "connected"

\* engine k is closed: by a close call of the listener, or terminated by itself
EngineReleased(k) == engines[k].state \in {"closed", "terminated"}

\* C27: whenever a pending session is removed without being promoted, by
\* close(), by an error or by engine termination, its engine has been closed:
\* no engine outlives its session unclosed.
C27_EngineReleased ==
  \A k \in 1..Len(engines) : RemovedUnpromoted(k) => EngineReleased(k)

\* a step of _promote_pending_connection raises and its "except Exception"
\* runs, in this step
PromotionFails ==
  /\ cur.pc \in {"drain", "verify"}
  /\ cur.log # "promote_failed"
  /\ cur'.log = "promote_failed"

\* C28: when any step of promotion fails, the session is removed from both
\* session maps and both address maps, connections_rejected increases by
\* exactly 1 and connections_accepted does not increase.
C28_PromotionFailure ==
  [][PromotionFails =>
       /\ cur.cid \notin DOMAIN pending_connections'
       /\ cur.cid \notin DOMAIN connections'
       /\ cur.cid \notin DOMAIN cid_to_addr'
       /\ \A a \in DOMAIN addr_to_cid' : addr_to_cid'[a] # cur.cid
       /\ stats'.connections_rejected = stats.connections_rejected + 1
       /\ stats'.connections_accepted = stats.connections_accepted]_vars

\* the two connection-id length bytes of d and the ids they announce lie
\* inside d
CidsFit(d) ==
  /\ Len(d) >= 6
  /\ Len(d) >= 7 + d[6]
  /\ Len(d) >= 7 + d[6] + d[7 + d[6]]

\* number of bytes of d before the token-length integer
TokenOffset(d) == 7 + d[6] + d[7 + d[6]]

\* d is an Initial packet whose token-length integer starts inside d and, by
\* its width of 2, 4 or 8 bytes, ends outside it
TruncatedTokenLength(d) ==
  /\ HasVersion(d)
  /\ CidsFit(d)
  /\ (d[1] \div 16) % 4 = 0
  /\ Len(d) > TokenOffset(d)
  /\ Len(d) < TokenOffset(d) + VarintWidth(d[TokenOffset(d) + 1])

\* C29: the parser returns None whenever a field read would run past the end
\* of the buffer; in particular an Initial packet whose token-length integer
\* is truncated yields None and never a header.
C29_TruncatedTokenLength ==
  cur.pc \notin {"idle", "classify"} =>
    LET d == cur.data
    IN  /\ (Len(d) >= 1 /\ d[1] >= 128 /\ ~(HasVersion(d) /\ CidsFit(d)))
             => ~parse_quic_packet(d).some
        /\ TruncatedTokenLength(d) => ~parse_quic_packet(d).some

\* ------------------------------------------- connection-id lengths on the wire
\* a connection id of n bytes
CidOfLen(n) == [i \in 1..n |-> i]

\* Initial and Handshake packets whose connection ids are 0, 8, 20 or 21 bytes
\* long, and the same packets cut after the DCID length byte
CidInputs ==
  LET full == { long_header(first, V1, CidOfLen(n), CidOfLen(m), << 0 >>) :
                  first \in {192, 224}, n \in {0, 8, 20, 21},
                  m \in {0, 8, 20, 21} }
  IN  full \cup { Slice(d, 0, 6) : d \in full }

\* a listening listener with no session and one task inside the lock that
\* holds a datagram drawn from CidInputs
InitCid ==
  /\ connections = EmptyMap
  /\ pending_connections = EmptyMap
  /\ addr_to_cid = EmptyMap
  /\ cid_to_addr = EmptyMap
  /\ stats = [connections_accepted |-> 0, connections_rejected |-> 0,
              version_negotiations |-> 0, packets_processed |-> 1,
              invalid_packets |-> 0]
  /\ socket = 1
  /\ bound_addresses = << 1 >>
  /\ listening = TRUE
  /\ closed = FALSE
  /\ nursery = TRUE
  /\ engines = << >>
  /\ tasks = {}
  /\ dispatched = 1
  /\ lock = "task"
  /\ waiters = << >>
  /\ sent = << >>
  /\ handler_started = << >>
  /\ ingress = [s \in 0..2 |-> IF s = 1 THEN 1 ELSE 0]
  /\ close_pc = "idle"
  /\ api = "none"
  /\ supported_versions = ListenerVersions
  /\ security_manager = TRUE
  /\ peers = {"A"}
  /\ menu = "routing"
  /\ may_close = FALSE
  /\ budget = 1
  /\ \E d \in CidInputs :
       cur = EnterCur([id |-> 1, addr |-> "A", data |-> d])

NextCid ==
  \/ Classify
  \/ Drain
  \/ Verify
  \/ Transmit
  \/ TaskExit

SpecCid == InitCid /\ [][NextCid]_vars

\* d has the long-header bit and announces a DCID or an SCID of more than 20
\* bytes
AdvertisesLongCid(d) ==
  /\ Len(d) >= 6
  /\ d[1] >= 128
  /\ \/ d[6] > 20
     \/ Len(d) >= 7 + d[6] /\ d[7 + d[6]] > 20

\* C30: every header the parser returns has a DCID and an SCID of at most 20
\* bytes each; a long-header datagram that announces a connection-id length
\* above 20 yields no header.
C30_CidLengthBound ==
  cur.pc \notin {"idle", "classify"} =>
    LET h == parse_quic_packet(cur.data)
    IN  /\ h.some => /\ Len(h.destination_cid) <= 20
                     /\ Len(h.source_cid) <= 20
        /\ AdvertisesLongCid(cur.data) => ~h.some

\* ---------------------------------------------------------- scheduling
\* the listener explored under fair scheduling: one peer, close() may be
\* called, stray traffic (Initial, Handshake and version-negotiation packets)
LiveScenarios ==
  { << TRUE, {"A"}, "stray", TRUE, MaxPackets >> }

InitLive ==
  /\ InitListener
  /\ supported_versions = ListenerVersions
  /\ \E sc \in LiveScenarios :
       /\ security_manager = sc[1]
       /\ peers = sc[2]
       /\ menu = sc[3]
       /\ may_close = sc[4]
       /\ budget = sc[5]

\* trio runs every task that can run: a started task reaches the lock, the
\* task inside the lock takes its next step (engine, verification and socket
\* calls return), close() that holds the lock goes on, an ingress task that
\* is at its loop test or whose socket was closed goes on. Arrivals, receive
\* errors and the calls of listen() and close() are up to the environment.
Fairness ==
  /\ WF_vars(TaskStart)
  /\ WF_vars(Classify)
  /\ WF_vars(Drain)
  /\ WF_vars(Verify)
  /\ WF_vars(Transmit)
  /\ WF_vars(TaskExit)
  /\ WF_vars(CloseFinish)
  /\ WF_vars(IngressLoop)
  /\ WF_vars(IngressClosed)

\* listen() that binds, close(), the ingress tasks and the datagram tasks
NextLive ==
  \/ ListenOk
  \/ CloseCall
  \/ CloseFinish
  \/ IngressLoop
  \/ IngressRecv
  \/ IngressError
  \/ IngressClosed
  \/ TaskStart
  \/ Classify
  \/ Drain
  \/ Verify
  \/ Transmit
  \/ TaskExit

SpecLive == InitLive /\ [][NextLive]_vars /\ Fairness

\* the _handle_incoming_packets tasks that have not ended
IngressTasks == ingress[0] + ingress[1] + ingress[2]

\* an ingress task ends in this step
IngressTaskEnds == IngressTasks' < IngressTasks

\* an ingress task passes its loop test in this step
LoopTest == ingress'[0] < ingress[0]

\* C31: once close() has closed the socket, the ingress task eventually ends
\* (the only ingress task left, if any, is the one of a later listen()) and
\* no datagram is dispatched while the listener stays closed; while the
\* listener is listening, a receive error does not end the ingress task: it
\* ends only when the listener stopped listening or its socket was closed,
\* and after the pause it goes on to receive from the socket.
C31_IngressEnds ==
  /\ (close_pc = "done") ~> (IngressTasks <= IF listening THEN 1 ELSE 0)
  /\ [][(close_pc = "done" /\ ~listening) => dispatched' = dispatched]_vars
  /\ [][IngressTaskEnds =>
          \/ ~listening
          \/ socket = 0
          \/ \E s \in 1..2 : s # socket /\ ingress'[s] < ingress[s]]_vars
  /\ [][(LoopTest /\ listening /\ socket # 0) =>
          ingress'[socket] = ingress[socket] + 1]_vars

\* the pending sessions ever created: one engine each
SessionsCreated == Len(engines)

\* the engines of the sessions counted in connections_accepted so far: the
\* ones handed to the connection handler
AcceptedEngines == { handler_started[i] : i \in 1..Len(handler_started) }

\* C32: each session is counted at most once in the outcome counters:
\* connections_accepted + connections_rejected never exceeds the number of
\* pending sessions ever created, and a session that was counted as accepted
\* is not counted as rejected afterwards.
C32_CountedOnce ==
  /\ [](stats.connections_accepted + stats.connections_rejected
          <= SessionsCreated)
  /\ [][stats'.connections_rejected > stats.connections_rejected =>
          cur'.engine \notin AcceptedEngines]_vars

\* the _process_packet task of datagram id was started and has not returned
TaskRunning(id) ==
  \/ \E t \in tasks : t.id = id
  \/ cur.pc # "idle" /\ cur.id = id

\* a close() call that found _closed false has not returned
CloseRunning == close_pc \in {"wait", "locked"}

\* C33: the routing lock is always released: a task that leaves the section,
\* by an early return, normally or after an exception, no longer holds the
\* lock, and, engine, socket and verification calls returning, every started
\* datagram task and every close() call that waits for the lock completes.
C33_LockReleased ==
  /\ [][(cur.pc = "exit" /\ cur' # cur) =>
          \/ lock' \in {"free", "close"}
          \/ lock' = "task" /\ cur'.pc = "classify" /\ cur'.id # cur.id]_vars
  /\ \A id \in 1..MaxPackets : TaskRunning(id) ~> ~TaskRunning(id)
  /\ CloseRunning ~> (close_pc = "done")
  /\ [](close_pc = "done" /\ tasks = {} /\ cur.pc = "idle" => lock = "free")

\* a task that returned early for a version-negotiation packet is about to
\* release the lock while close() and another task wait for it
C33_Witness ==
  /\ cur.pc = "exit"
  /\ cur.log = "vn_ignored"
  /\ close_pc = "wait"
  /\ \E t \in tasks : t.pc = "wait"

====
